---- MODULE Spec2Model ----
(***************************************************************************)
(* Personal-Finance-Tracker-v2.  Two variants of the App component:        *)
(*   - the Google Sheets variant (src/App.tsx), and                        *)
(*   - the local-storage variant (src/unnamed/part_001, with its sample    *)
(*     data in src/unnamed/part_000).                                      *)
(*                                                                         *)
(* Encodings                                                               *)
(*   - a JS number is an integer; NaN is the record NaN below;             *)
(*   - a string that is read with parseFloat is a record                   *)
(*     [num, v]: Str(n) is the decimal text of n, EmptyStr is '' and       *)
(*     Junk is a text that is not a number;                                *)
(*   - a calendar date 'YYYY-MM-DD' is its day number (days since          *)
(*     1970-01-01), an ISO timestamp is its instant in hours since the     *)
(*     epoch (UTC); tz is the browser's offset from UTC in hours;          *)
(*   - a transaction id is a number, 0 standing for a missing id;          *)
(*   - a month text 'YYYY-MM' is the number year * 12 + month index;       *)
(*   - the text in localStorage is a record: nothing stored, a JSON array  *)
(*     of objects, or a text that does not parse.                          *)
(***************************************************************************)
EXTENDS Integers, Sequences, FiniteSets, TLC

VARIABLES
    variant,            \* which App is mounted: "sheets" or "local"
    tz,                 \* environment: local time = UTC + tz hours
    today,              \* environment: the UTC calendar day of `new Date()`
    clock,              \* environment: `new Date().getTime()`, the source of ids
    transactions,       \* useState<Transaction[]>
    newTxData,          \* useState: the add-transaction form
    initialBalances,    \* useState: { general, provision } (strings)
    monthlyIncomeGoal,  \* useState: string
    lastRolloverMonth,  \* useState: 'YYYY-MM' or ''
    currentDate,        \* useState: 'YYYY-MM-DD'
    gapiConfig,         \* useState: the connection settings or null
    isGapiScriptLoaded, \* useState
    isSignedIn,         \* useState
    isLoading,          \* useState
    isSaving,           \* useState
    error,              \* useState: the message shown, or null
    sheetIds,           \* useState: sheet title -> sheetId, here: whether it was loaded
    authInstance,       \* gapi.auth2.getAuthInstance() exists and notifies the listener
    sheetRows,          \* the rows of the Transactions sheet (Google Sheets)
    configSheet,        \* the cells Config!B1:B4 (Google Sheets)
    inflight,           \* the handler invocations waiting on a request
    storage,            \* localStorage[TRANSACTIONS_STORAGE_KEY]
    selectedMonth       \* useState: the month of the daily chart, 'YYYY-MM' or ''

envVars == <<variant, tz, today>>
formVars == <<newTxData>>
settingsVars == <<initialBalances, monthlyIncomeGoal, lastRolloverMonth>>
sessionVars == <<gapiConfig, isGapiScriptLoaded, isSignedIn, authInstance, sheetIds>>
busyVars == <<isLoading, isSaving, error>>
remoteVars == <<sheetRows, configSheet>>

vars == <<variant, tz, today, clock, transactions, newTxData, initialBalances,
          monthlyIncomeGoal, lastRolloverMonth, currentDate, gapiConfig,
          isGapiScriptLoaded, isSignedIn, isLoading, isSaving, error, sheetIds,
          authInstance, sheetRows, configSheet, inflight, storage, selectedMonth>>

(***************************************************************************)
(* Values                                                                  *)
(***************************************************************************)
INCOME == "INCOME"
EXPENSE == "EXPENSE"
TRANSFER == "TRANSFER"
TransactionType == {EXPENSE, INCOME, TRANSFER}

GENERAL == "GENERAL"
PROVISION == "PROVISION"
TransactionSource == {GENERAL, PROVISION}

Undefined == "undefined"
Null == "null"

\* lastRolloverMonth '': no month
NoMonth == 0 - 1

Str(n) == [num |-> TRUE, v |-> n]
EmptyStr == [num |-> FALSE, v |-> 0]
Junk == [num |-> FALSE, v |-> 1]

NaN == [nan |-> TRUE, v |-> 0]
Num(n) == [nan |-> FALSE, v |-> n]

\* parseFloat(s)
parseFloat(s) == IF s.num THEN Num(s.v) ELSE NaN

\* x || 0 on a number: NaN and 0 are falsy
OrZero(x) == IF x.nan \/ x.v = 0 THEN 0 ELSE x.v

Tx(id, date, description, amount, type, source, destination, rowIndex) ==
    [id |-> id, date |-> date, description |-> description, amount |-> amount,
     type |-> type, source |-> source, destination |-> destination,
     rowIndex |-> rowIndex]

\* localStorage.getItem gives null when nothing is stored under the key, or
\* the stored text: here a JSON array of objects, or a text JSON.parse throws on
NothingStored == [kind |-> "null", value |-> <<>>]
Unparsable == [kind |-> "text", value |-> <<>>]
JsonArray(objects) == [kind |-> "json", value |-> objects]

\* the keys JSON.stringify writes for a Transaction: a key whose value is
\* undefined is left out; of the fields only destination can be undefined,
\* and the local-storage variant sets no rowIndex
stringifyTx(tx) ==
    [k \in (IF tx.destination = Undefined
            THEN {"id", "date", "description", "amount", "type", "source"}
            ELSE {"id", "date", "description", "amount", "type", "source", "destination"})
        |-> tx[k]]

\* JSON.stringify(transactions)
stringify(txs) == JsonArray([i \in 1..Len(txs) |-> stringifyTx(txs[i])])

\* a property of a parsed object, as the App reads it: undefined when absent
parseTx(object) ==
    Tx(object.id, object.date, object.description, object.amount, object.type,
       object.source,
       IF "destination" \in DOMAIN object THEN object.destination ELSE Undefined,
       0)

\* JSON.parse(storedTransactions), of a text that parses
parse(stored) == [i \in 1..Len(stored.value) |-> parseTx(stored.value[i])]

(***************************************************************************)
(* Dates.  A calendar day is its day number, an instant is in hours (UTC). *)
(***************************************************************************)
\* the day number of year y, month m (1..12), day d of the civil calendar
CivilToDays(y, m, d) ==
    LET yy == IF m <= 2 THEN y - 1 ELSE y
        era == yy \div 400
        yoe == yy - era * 400
        mp == IF m > 2 THEN m - 3 ELSE m + 9
        doy == (153 * mp + 2) \div 5 + d - 1
        doe == yoe * 365 + yoe \div 4 - yoe \div 100 + doy
    IN  era * 146097 + doe - 719468

\* the civil date [y, m, d] of a day number
DaysToCivil(z) ==
    LET z2 == z + 719468
        era == z2 \div 146097
        doe == z2 - era * 146097
        yoe == (doe - doe \div 1460 + doe \div 36524 - doe \div 146096) \div 365
        doy == doe - (365 * yoe + yoe \div 4 - yoe \div 100)
        mp == (5 * doy + 2) \div 153
        m == IF mp < 10 THEN mp + 3 ELSE mp - 9
    IN  [y |-> yoe + era * 400 + (IF m <= 2 THEN 1 ELSE 0),
         m |-> m,
         d |-> doy - (153 * mp + 2) \div 5 + 1]

\* new Date('YYYY-MM-DD'): a date-only text is read as UTC midnight
DateFromString(day) == day * 24

\* the local calendar date of an instant
LocalCivil(t) == DaysToCivil((t + tz) \div 24)

\* Date.prototype.getDate, getMonth (0..11), getFullYear: local time
getDate(t) == LocalCivil(t).d
getMonth(t) == LocalCivil(t).m - 1
getFullYear(t) == LocalCivil(t).y

\* new Date(year, monthIndex, day): local midnight, the month index carried
\* into the year when it is outside 0..11
DateFromParts(year, monthIndex, day) ==
    CivilToDays(year + monthIndex \div 12, (monthIndex % 12) + 1, day) * 24 - tz

(***************************************************************************)
(* Balances                                                                *)
(***************************************************************************)
\* Sheets variant: the body of transactions.forEach in `balances`
applyTx_NoCredit(b, tx) ==
    CASE tx.type = INCOME ->
            IF tx.source = GENERAL THEN [b EXCEPT !.general = @ + tx.amount]
            ELSE IF tx.source = PROVISION THEN [b EXCEPT !.provision = @ + tx.amount]
            ELSE b
      [] tx.type = EXPENSE ->
            IF tx.source = GENERAL THEN [b EXCEPT !.general = @ - tx.amount]
            ELSE IF tx.source = PROVISION THEN [b EXCEPT !.provision = @ - tx.amount]
            ELSE b
      [] tx.type = TRANSFER ->
            IF tx.source = GENERAL /\ tx.destination = PROVISION
            THEN [general |-> b.general - tx.amount, provision |-> b.provision + tx.amount]
            ELSE IF tx.source = PROVISION /\ tx.destination = GENERAL
            THEN [general |-> b.general, provision |-> b.provision - tx.amount]
            ELSE b
      [] OTHER -> b

applyTx(b, tx) ==
    CASE tx.type = INCOME ->
            IF tx.source = GENERAL THEN [b EXCEPT !.general = @ + tx.amount]
            ELSE IF tx.source = PROVISION THEN [b EXCEPT !.provision = @ + tx.amount]
            ELSE b
      [] tx.type = EXPENSE ->
            IF tx.source = GENERAL THEN [b EXCEPT !.general = @ - tx.amount]
            ELSE IF tx.source = PROVISION THEN [b EXCEPT !.provision = @ - tx.amount]
            ELSE b
      [] tx.type = TRANSFER ->
            IF tx.source = GENERAL /\ tx.destination = PROVISION
            THEN [general |-> b.general - tx.amount, provision |-> b.provision + tx.amount]
            ELSE IF tx.source = PROVISION /\ tx.destination = GENERAL
            THEN [general |-> b.general + tx.amount, provision |-> b.provision - tx.amount]
            ELSE b
      [] OTHER -> b

RECURSIVE forEachBalance_StopAtTransfer(_, _, _)
\* a variant whose loop is left at the first TRANSFER, after applying it
forEachBalance_StopAtTransfer(b, txs, i) ==
    IF i > Len(txs) THEN b
    ELSE IF txs[i].type = TRANSFER THEN applyTx(b, txs[i])
    ELSE forEachBalance_StopAtTransfer(applyTx(b, txs[i]), txs, i + 1)

\* transactions.forEach from index i on
RECURSIVE forEachBalance(_, _, _)
forEachBalance(b, txs, i) ==
    IF i > Len(txs) THEN b ELSE forEachBalance(applyTx(b, txs[i]), txs, i + 1)

\* Sheets variant: useMemo `balances`
balancesOf(txs, ib) ==
    forEachBalance([general |-> OrZero(parseFloat(ib.general)),
                    provision |-> OrZero(parseFloat(ib.provision))], txs, 1)

balances == balancesOf(transactions, initialBalances)

\* Local-storage variant: the body of transactions.forEach in `balances`
applyTxLocal(acc, tx) ==
    IF tx.type = INCOME
    THEN [acc EXCEPT !.totalIncome = @ + tx.amount]
    ELSE IF tx.type = EXPENSE
    THEN [acc EXCEPT !.totalExpense = @ + tx.amount,
                     !.provisionBalance =
                         IF tx.source = PROVISION THEN @ - tx.amount ELSE @]
    ELSE IF tx.type = TRANSFER /\ tx.destination = PROVISION
    THEN [acc EXCEPT !.provisionBalance = @ + tx.amount]
    ELSE acc

RECURSIVE forEachLocal(_, _, _)
forEachLocal(acc, txs, i) ==
    IF i > Len(txs) THEN acc ELSE forEachLocal(applyTxLocal(acc, txs[i]), txs, i + 1)

totalsLocal_DropProvision(acc) ==
    [general |-> acc.totalIncome - acc.totalExpense,
     provision |-> acc.provisionBalance]

totalsLocal(acc) ==
    [general |-> (acc.totalIncome - acc.totalExpense) - acc.provisionBalance,
     provision |-> acc.provisionBalance]

\* Local-storage variant: useMemo `balances`
balancesLocalOf(txs) ==
    totalsLocal(forEachLocal([totalIncome |-> 0, totalExpense |-> 0,
                              provisionBalance |-> 0], txs, 1))

balancesLocal == balancesLocalOf(transactions)

(***************************************************************************)
(* The income-goal period                                                  *)
(***************************************************************************)
RECURSIVE SumAmounts(_, _, _)
\* txs.filter(keep).reduce((sum, tx) => sum + tx.amount, 0), from index i
SumAmounts(txs, i, keep) ==
    IF i > Len(txs) THEN 0
    ELSE (IF keep[i] THEN txs[i].amount ELSE 0) + SumAmounts(txs, i + 1, keep)

\* spent + transferOutFromGeneral over the transactions dated in [startDate, endDate)
periodUsed(txs, startDate, endDate) ==
    LET inPeriod == [i \in 1..Len(txs) |->
                        txs[i].date >= startDate /\ txs[i].date < endDate]
        spent == SumAmounts(txs, 1,
                    [i \in 1..Len(txs) |-> inPeriod[i] /\ txs[i].type = EXPENSE])
        transferOutFromGeneral == SumAmounts(txs, 1,
                    [i \in 1..Len(txs) |->
                        inPeriod[i] /\ txs[i].type = TRANSFER /\ txs[i].source = GENERAL])
    IN  spent + transferOutFromGeneral

\* the period of currentMonthStats: [startDate, endDate)
statsPeriod(date) ==
    LET now == DateFromString(date)
        dayOfMonth == getDate(now)
    IN  IF dayOfMonth < 15
        THEN [startDate |-> DateFromParts(getFullYear(now), getMonth(now) - 1, 15),
              endDate |-> DateFromParts(getFullYear(now), getMonth(now), 15)]
        ELSE [startDate |-> DateFromParts(getFullYear(now), getMonth(now), 15),
              endDate |-> DateFromParts(getFullYear(now), getMonth(now) + 1, 15)]

\* progress is the fraction n / d (d > 0)
progressOf_NoCap(goal, totalUsed) ==
    IF goal > 0 THEN [n |-> totalUsed * 100, d |-> goal] ELSE [n |-> 0, d |-> 1]

\* goal > 0 ? (totalUsed / goal) * 100 : 0, then Math.min(progress, 100)
progressOf(goal, totalUsed) ==
    IF goal > 0
    THEN (IF totalUsed * 100 < 100 * goal
          THEN [n |-> totalUsed * 100, d |-> goal]
          ELSE [n |-> 100, d |-> 1])
    ELSE [n |-> 0, d |-> 1]

\* useMemo `currentMonthStats`
currentMonthStatsOf(txs, goalText, date) ==
    LET goal == OrZero(parseFloat(goalText))
        period == statsPeriod(date)
        totalUsed == periodUsed(txs, period.startDate, period.endDate)
    IN  [remaining |-> IF goal > 0 THEN goal - totalUsed ELSE 0,
         totalUsed |-> totalUsed,
         progress |-> progressOf(goal, totalUsed)]

currentMonthStats == currentMonthStatsOf(transactions, monthlyIncomeGoal, currentDate)

(***************************************************************************)
(* The state after construction                                            *)
(***************************************************************************)
FormReset(day) ==
    [description |-> "", amount |-> EmptyStr, date |-> day, type |-> EXPENSE,
     source |-> GENERAL, destination |-> GENERAL]

\* the useState initial values of the Sheets App that the reductions do not read
Unmounted ==
    /\ lastRolloverMonth = NoMonth
    /\ gapiConfig = Null
    /\ isGapiScriptLoaded = FALSE
    /\ isSignedIn = FALSE
    /\ isLoading = FALSE
    /\ isSaving = FALSE
    /\ error = Null
    /\ sheetIds = FALSE
    /\ authInstance = FALSE
    /\ sheetRows = <<>>
    /\ configSheet = <<>>
    /\ inflight = <<>>
    /\ storage = NothingStored

(***************************************************************************)
(* SpecFold: the balance reductions on every transaction list              *)
(***************************************************************************)
MaxFoldLen == 2

FoldAmounts == {1, 2}
FoldBalanceStrings == {Str(5), EmptyStr}
FoldTxs ==
    {Tx(1, 0, "d", a, t, s, d, 0) :
        a \in FoldAmounts, t \in TransactionType, s \in TransactionSource,
        d \in TransactionSource \cup {Undefined}}

InitFold ==
    /\ variant = "sheets"
    /\ tz = 0
    /\ today = 0
    /\ clock = 0
    /\ transactions = <<>>
    /\ selectedMonth = NoMonth
    /\ newTxData = FormReset(today)
    /\ initialBalances \in [general : FoldBalanceStrings, provision : {Str(0), Str(3)}]
    /\ monthlyIncomeGoal = Str(0)
    /\ currentDate = today
    /\ Unmounted

\* the next list of the enumeration: one more transaction at the end
FoldExtend ==
    /\ Len(transactions) < MaxFoldLen
    /\ \E tx \in FoldTxs : transactions' = Append(transactions, tx)
    /\ UNCHANGED selectedMonth
    /\ UNCHANGED <<envVars, clock, formVars, settingsVars, currentDate, sessionVars,
                   busyVars, remoteVars, inflight, storage>>

SpecFold == InitFold /\ [][FoldExtend]_vars

(***************************************************************************)
(* SpecStats: currentMonthStats on every goal, date, zone and list         *)
(***************************************************************************)
MaxStatsLen == 2

TzOffsets == {0 - 5, 7}
StatsGoals == {Junk, Str(0 - 2), Str(0), Str(3)}
StatsDays == {CivilToDays(2024, 1, 14), CivilToDays(2024, 1, 15), CivilToDays(2024, 2, 15)}
StatsKinds == {<<EXPENSE, GENERAL, Undefined>>, <<EXPENSE, PROVISION, Undefined>>,
               <<TRANSFER, GENERAL, PROVISION>>, <<TRANSFER, PROVISION, GENERAL>>,
               <<INCOME, GENERAL, Undefined>>}
\* transactions as handleAddTransaction makes them: date is the ISO text of
\* new Date(form date)
StatsTxs ==
    {Tx(1, DateFromString(day), "d", a, k[1], k[2], k[3], 0) :
        a \in {1, 2}, k \in StatsKinds, day \in StatsDays}

InitStats ==
    /\ variant = "sheets"
    /\ tz \in TzOffsets
    /\ today = CivilToDays(2024, 1, 14)
    /\ clock = 0
    /\ transactions = <<>>
    /\ selectedMonth = NoMonth
    /\ newTxData = FormReset(today)
    /\ initialBalances = [general |-> Str(0), provision |-> Str(0)]
    /\ monthlyIncomeGoal \in StatsGoals
    /\ currentDate \in {CivilToDays(2024, 1, 14), CivilToDays(2024, 1, 15)}
    /\ Unmounted

StatsExtend ==
    /\ Len(transactions) < MaxStatsLen
    /\ \E tx \in StatsTxs : transactions' = Append(transactions, tx)
    /\ UNCHANGED selectedMonth
    /\ UNCHANGED <<envVars, clock, formVars, settingsVars, currentDate, sessionVars,
                   busyVars, remoteVars, inflight, storage>>

SpecStats == InitStats /\ [][StatsExtend]_vars

(***************************************************************************)
(* The transaction list: sorting, loading, the form                        *)
(***************************************************************************)
\* where a stable sort by date, newest first, puts x in the sorted list acc:
\* behind every element that is not older
insertByDate(acc, x) ==
    LET k == Cardinality({i \in 1..Len(acc) : acc[i].date >= x.date})
    IN  SubSeq(acc, 1, k) \o <<x>> \o SubSeq(acc, k + 1, Len(acc))

RECURSIVE sortFrom(_, _, _)
sortFrom(acc, txs, i) ==
    IF i > Len(txs) THEN acc ELSE sortFrom(insertByDate(acc, txs[i]), txs, i + 1)

\* a variant that leaves the array in the order it has
sortByDateDesc_Unsorted(txs) == txs

\* txs.sort((a, b) => new Date(b.date).getTime() - new Date(a.date).getTime())
sortByDateDesc(txs) == sortFrom(<<>>, txs, 1)

\* tx.date.substring(0, 7): the 'YYYY-MM' of an ISO timestamp, which is in UTC
substring7(date) ==
    LET civil == DaysToCivil(date \div 24)
    IN  civil.y * 12 + (civil.m - 1)

\* Array.from(months).sort().reverse(): the months of a set, newest first
RECURSIVE sortReverse(_)
sortReverse(months) ==
    IF months = {} THEN <<>>
    ELSE LET last == CHOOSE m \in months : \A other \in months : other <= m
         IN  <<last>> \o sortReverse(months \ {last})

\* uniqueMonths
uniqueMonths(txs) == sortReverse({substring7(txs[i].date) : i \in 1..Len(txs)})

\* uniqueMonths.includes(selectedMonth)
includes(months, month) == \E i \in 1..Len(months) : months[i] = month

\* the month-selection effect after a render, run until it changes nothing:
\* the Sheets App replaces a missing or unlisted month by the newest one and
\* empties the selection with the list, the local-storage App only fills an
\* empty selection
monthSelectionEffect(app, months, selected) ==
    IF app = "sheets"
    THEN IF Len(months) > 0
         THEN IF selected = NoMonth \/ ~includes(months, selected)
              THEN months[1]
              ELSE selected
         ELSE NoMonth
    ELSE IF Len(months) > 0 /\ selected = NoMonth
         THEN months[1]
         ELSE selected

\* a row of the Transactions sheet, columns A..G; amount is the cell's text
Row(id, date, description, amount, type, source, destination) ==
    [id |-> id, date |-> date, description |-> description, amount |-> amount,
     type |-> type, source |-> source, destination |-> destination]

\* loadTransactionsForEffect: values.map((row, index) => ...), index from 0
rowToTx(row, index) ==
    Tx(row.id, row.date, row.description, OrZero(parseFloat(row.amount)),
       row.type, row.source, row.destination, index + 1)

\* loadTransactionsForEffect: map, filter(tx => tx.id), sort
loadedTransactions(rows) ==
    sortByDateDesc(SelectSeq([i \in 1..Len(rows) |-> rowToTx(rows[i], i - 1)],
                             LAMBDA tx : tx.id # 0))

\* String.prototype.trim on the descriptions of the model
trim(text) == IF text = " " THEN "" ELSE text

\* `txn-${new Date().getTime()}`: ids of this session lie above the stored ones
TxnId(time) == 10 + time

\* handleAddTransaction: the first check
invalidSubmission_ZeroAllowed(form) ==
    LET amount == parseFloat(form.amount)
    IN  trim(form.description) = "" \/ amount.nan \/ amount.v < 0

invalidSubmission(form) ==
    LET amount == parseFloat(form.amount)
    IN  trim(form.description) = "" \/ amount.nan \/ amount.v <= 0

\* handleAddTransaction (Sheets variant): the second check
sameSourceTransfer_Never(form) == FALSE

sameSourceTransfer(form) ==
    form.type = TRANSFER /\ form.source = form.destination

\* handleAddTransaction: newTransaction
newTransaction(form, time) ==
    Tx(TxnId(time), DateFromString(form.date), trim(form.description),
       parseFloat(form.amount).v, form.type, form.source,
       IF form.type = TRANSFER THEN form.destination ELSE Undefined, 0)

\* handleAddTransaction: the row appended, as the sheet gives it back
rowOf(tx) ==
    Row(tx.id, tx.date, tx.description, Str(tx.amount), tx.type, tx.source,
        tx.destination)

\* deleteDimension of the 1-based row n: the rows below move up; a row below
\* the last value row holds nothing
deleteRow(rows, n) ==
    IF n >= 1 /\ n <= Len(rows)
    THEN SubSeq(rows, 1, n - 1) \o SubSeq(rows, n + 1, Len(rows))
    ELSE rows

(***************************************************************************)
(* Requests in flight                                                      *)
(***************************************************************************)
NoTx == Tx(0, 0, "", 0, "", "", "", 0)

\* a handler invocation suspended at an await: pc names the request, tx and
\* txs are the handler's newTransaction and the `transactions` of its render,
\* id and row the transaction to delete, month, goal and balances the values a
\* write to the Config sheet carries
Call(kind, pc, tx, txs, id, row) ==
    [kind |-> kind, pc |-> pc, tx |-> tx, txs |-> txs, id |-> id, row |-> row,
     month |-> NoMonth, goal |-> Str(0),
     balances |-> [general |-> Str(0), provision |-> Str(0), carried |-> <<>>]]

Without(calls, i) == SubSeq(calls, 1, i - 1) \o SubSeq(calls, i + 1, Len(calls))

Moved(calls, i, pc) == [calls EXCEPT ![i].pc = pc]

\* the operations a user starts in one behaviour (sign-in, sign-out, add,
\* delete, a change of the date, the goal or a balance, opening the page
\* again); each advances the clock, and requests in flight are as many at most
MaxOps == 2

(***************************************************************************)
(* The rollover effect of the Sheets App                                   *)
(***************************************************************************)
\* `${now.getFullYear()}-${(now.getMonth() + 1).toString().padStart(2, '0')}`:
\* the text 'YYYY-MM' is the number of the month, counted from year 0
monthStr(now) == getFullYear(now) * 12 + getMonth(now)

\* the effect's dependency list
rolloverDeps ==
    <<currentDate, transactions, monthlyIncomeGoal, initialBalances,
      lastRolloverMonth, gapiConfig, isSignedIn>>

\* the conditions under which the effect sends a request
rolloverDue(signedIn, config, date, lastMonth) ==
    /\ signedIn
    /\ config # Null
    /\ getDate(DateFromString(date)) >= 15
    /\ lastMonth # monthStr(DateFromString(date))

\* a variant that looks at the period that begins on this month's 15th
rolloverAmount_ThisPeriod(date, txs, goalText) ==
    LET now == DateFromString(date)
        startDate == DateFromParts(getFullYear(now), getMonth(now), 15)
        endDate == DateFromParts(getFullYear(now), getMonth(now) + 1, 15)
        totalUsed == periodUsed(txs, startDate, endDate)
        goal == OrZero(parseFloat(goalText))
    IN  goal - totalUsed

\* rolloverAmount: goal - totalUsed over [prevPeriodStartDate, prevPeriodEndDate)
rolloverAmount(date, txs, goalText) ==
    LET now == DateFromString(date)
        prevPeriodStartDate == DateFromParts(getFullYear(now), getMonth(now) - 1, 15)
        prevPeriodEndDate == DateFromParts(getFullYear(now), getMonth(now), 15)
        totalUsed == periodUsed(txs, prevPeriodStartDate, prevPeriodEndDate)
        goal == OrZero(parseFloat(goalText))
    IN  goal - totalUsed

\* a request that writes the balance whatever the sign of rolloverAmount
rolloverRequest_Deducts(date, txs, goalText, initial) ==
    [Call("rollover", "batchUpdate", NoTx, <<>>, 0, 0)
        EXCEPT !.month = monthStr(DateFromString(date)),
               !.balances = [initial EXCEPT
                    !.general = Str(OrZero(parseFloat(initial.general))
                                    + rolloverAmount(date, txs, goalText)),
                    !.carried = Append(@, monthStr(DateFromString(date)))]]

\* the request the effect sends: values.batchUpdate of Config!B1 and B4 with
\* updatedBalances and currentMonthStr in its closure, or values.update of
\* Config!B4 with currentMonthStr
rolloverRequest(date, txs, goalText, initial) ==
    LET currentMonthStr == monthStr(DateFromString(date))
        amount == rolloverAmount(date, txs, goalText)
        newBalance == OrZero(parseFloat(initial.general)) + amount
    IN  IF amount > 0
        THEN [Call("rollover", "batchUpdate", NoTx, <<>>, 0, 0)
                EXCEPT !.month = currentMonthStr,
                       !.balances = [initial EXCEPT
                                        !.general = Str(newBalance),
                                        !.carried = Append(@, currentMonthStr)]]
        ELSE [Call("rollover", "update", NoTx, <<>>, 0, 0)
                EXCEPT !.month = currentMonthStr]

\* the requests in flight after the render that follows a step: the effect
\* runs when a dependency has changed, after the requests of the step itself
afterEffects(calls) ==
    IF /\ rolloverDeps' # rolloverDeps
       /\ rolloverDue(isSignedIn', gapiConfig', currentDate', lastRolloverMonth')
    THEN Append(calls, rolloverRequest(currentDate', transactions',
                                       monthlyIncomeGoal', initialBalances'))
    ELSE calls

(***************************************************************************)
(* The Sheets App                                                          *)
(***************************************************************************)
\* the users' time zone, UTC+7
AppTz == CHOOSE z \in TzOffsets : z > 0

\* render: the page with the forms and the list
MainView == gapiConfig # Null /\ ~isLoading /\ isSignedIn

\* render: the sign-in page
SignInView == gapiConfig # Null /\ ~isLoading /\ ~isSignedIn

\* (carried is history, no cell of the sheet: the months whose unspent budget
\* the general balance includes, each as often as it was added)
EmptyConfig ==
    [general |-> EmptyStr, provision |-> EmptyStr, goal |-> EmptyStr,
     lastRollover |-> NoMonth, carried |-> <<>>]

\* the Config sheet of the user: a general balance and a goal, no provision
StoredConfig ==
    [general |-> Str(10), provision |-> EmptyStr, goal |-> Str(3),
     lastRollover |-> NoMonth, carried |-> <<>>]

\* Transactions sheets a user may have: none, one the app wrote, one edited by
\* hand (a header-like row without id, a negative amount, a text amount, a
\* transfer within one bucket)
SheetChoices ==
    {<<>>,
     <<Row(1, DateFromString(CivilToDays(2024, 1, 10)), "d", Str(3), EXPENSE, GENERAL, Undefined),
       Row(2, DateFromString(CivilToDays(2024, 1, 12)), "d", Str(2), TRANSFER, GENERAL, PROVISION)>>,
     <<Row(0, 0, "", Junk, "", "", Undefined),
       Row(3, DateFromString(CivilToDays(2024, 1, 10)), "d", Str(0 - 4), EXPENSE, GENERAL, Undefined),
       Row(4, DateFromString(CivilToDays(2024, 1, 12)), "d", Junk, TRANSFER, GENERAL, GENERAL)>>}

InitSheets ==
    /\ variant = "sheets"
    /\ tz = AppTz
    /\ today = CivilToDays(2024, 1, 14)
    /\ clock = 0
    /\ transactions = <<>>
    /\ selectedMonth = NoMonth
    /\ newTxData = FormReset(today)
    /\ initialBalances = [general |-> Str(0), provision |-> Str(0), carried |-> <<>>]
    /\ monthlyIncomeGoal = Str(0)
    /\ lastRolloverMonth = NoMonth
    /\ currentDate = today
    /\ gapiConfig = Null
    /\ isGapiScriptLoaded = FALSE
    /\ isSignedIn = FALSE
    /\ isLoading = FALSE
    /\ isSaving = FALSE
    /\ error = Null
    /\ sheetIds = FALSE
    /\ authInstance = FALSE
    /\ sheetRows \in SheetChoices
    /\ configSheet = StoredConfig
    /\ inflight = <<>>
    /\ storage = NothingStored

\* the script-loading effect: gapi.load's callback; with a configuration set
\* the init effect runs initClient
gapiScriptLoaded ==
    /\ variant = "sheets"
    /\ ~isGapiScriptLoaded
    /\ isGapiScriptLoaded' = TRUE
    /\ inflight' = IF gapiConfig # Null
                   THEN Append(inflight, Call("initClient", "init", NoTx, <<>>, 0, 0))
                   ELSE inflight
    /\ UNCHANGED <<envVars, clock, transactions, selectedMonth, formVars, settingsVars, currentDate,
                   gapiConfig, isSignedIn, authInstance, sheetIds, busyVars,
                   remoteVars, storage>>

\* handleConnect, and the init effect it triggers once the script is loaded
handleConnect ==
    /\ variant = "sheets"
    /\ gapiConfig = Null
    /\ isLoading' = TRUE
    /\ gapiConfig' = "config"
    /\ UNCHANGED <<envVars, clock, transactions, selectedMonth, formVars, settingsVars, currentDate,
                   isGapiScriptLoaded, isSignedIn, authInstance, sheetIds, isSaving,
                   error, remoteVars, storage>>
    /\ inflight' = afterEffects(IF isGapiScriptLoaded
                                THEN Append(inflight, Call("initClient", "init", NoTx, <<>>, 0, 0))
                                ELSE inflight)

\* statusUpdateListener(true) up to its first await, replacing or adding a call
listenerSignedIn(calls) ==
    /\ isSignedIn' = TRUE
    /\ isLoading' = TRUE
    /\ error' = Null
    /\ UNCHANGED <<transactions, selectedMonth, settingsVars>>
    /\ inflight' = afterEffects(Append(calls, Call("statusUpdateListener", "meta", NoTx, <<>>, 0, 0)))

\* statusUpdateListener(false)
listenerSignedOut(calls) ==
    /\ isSignedIn' = FALSE
    /\ transactions' = <<>>
    /\ selectedMonth' = monthSelectionEffect(variant, uniqueMonths(transactions'), selectedMonth)
    /\ initialBalances' = [general |-> Str(0), provision |-> Str(0), carried |-> <<>>]
    /\ monthlyIncomeGoal' = Str(0)
    /\ lastRolloverMonth' = NoMonth
    /\ isLoading' = FALSE
    /\ UNCHANGED error
    /\ inflight' = afterEffects(calls)

\* initClient after gapi.client.init resolved: the listener is registered and
\* called with the present sign-in state
initClientResolved ==
    \E i \in 1..Len(inflight) :
        /\ inflight[i].kind = "initClient"
        /\ authInstance' = TRUE
        /\ UNCHANGED <<envVars, clock, formVars, currentDate, gapiConfig,
                       isGapiScriptLoaded, sheetIds, isSaving, remoteVars, storage>>
        /\ \/ listenerSignedIn(Without(inflight, i))
           \/ listenerSignedOut(Without(inflight, i))

\* initClient after gapi.client.init rejected
initClientRejected ==
    \E i \in 1..Len(inflight) :
        /\ inflight[i].kind = "initClient"
        /\ error' = "init"
        /\ isLoading' = FALSE
        /\ inflight' = Without(inflight, i)
        /\ UNCHANGED <<envVars, clock, transactions, selectedMonth, formVars, settingsVars,
                       currentDate, sessionVars, isSaving, remoteVars, storage>>

\* handleSignIn, and the notification of the listener when the user signs in
handleSignIn ==
    /\ variant = "sheets"
    /\ SignInView
    /\ clock < MaxOps
    /\ clock' = clock + 1
    /\ IF authInstance
       THEN /\ UNCHANGED <<envVars, formVars, currentDate, gapiConfig,
                           isGapiScriptLoaded, authInstance, sheetIds, isSaving,
                           remoteVars, storage>>
            /\ listenerSignedIn(inflight)
       ELSE /\ error' = "auth"
            /\ UNCHANGED <<envVars, transactions, selectedMonth, formVars, settingsVars,
                           currentDate, sessionVars, isLoading, isSaving, remoteVars,
                           inflight, storage>>

\* handleSignOut, and the notification of the listener
handleSignOut ==
    /\ variant = "sheets"
    /\ MainView
    /\ authInstance
    /\ clock < MaxOps
    /\ clock' = clock + 1
    /\ UNCHANGED <<envVars, formVars, currentDate, gapiConfig,
                   isGapiScriptLoaded, authInstance, sheetIds, isSaving, remoteVars,
                   storage>>
    /\ listenerSignedOut(inflight)

\* statusUpdateListener: spreadsheets.get resolved; loadConfigForEffect starts
metaResolved ==
    \E i \in 1..Len(inflight) :
        /\ inflight[i].kind = "statusUpdateListener" /\ inflight[i].pc = "meta"
        /\ sheetIds' = TRUE
        /\ inflight' = Moved(inflight, i, "config")
        /\ UNCHANGED <<envVars, clock, transactions, selectedMonth, formVars, settingsVars,
                       currentDate, gapiConfig, isGapiScriptLoaded, isSignedIn,
                       authInstance, busyVars, remoteVars, storage>>

\* statusUpdateListener: a request it awaits rejected (spreadsheets.get, or
\* the values.get of loadTransactionsForEffect): catch, finally
loadRejected ==
    \E i \in 1..Len(inflight) :
        /\ inflight[i].kind = "statusUpdateListener" /\ inflight[i].pc \in {"meta", "txns"}
        /\ error' = "load"
        /\ isLoading' = FALSE
        /\ inflight' = Without(inflight, i)
        /\ UNCHANGED <<envVars, clock, transactions, selectedMonth, formVars, settingsVars,
                       currentDate, sessionVars, isSaving, remoteVars, storage>>

\* configMap[key] || '0'
orDefault(text) == IF text = EmptyStr THEN Str(0) ELSE text

\* loadConfigForEffect: values.get resolved; loadTransactionsForEffect starts
configResolved ==
    \E i \in 1..Len(inflight) :
        /\ inflight[i].kind = "statusUpdateListener" /\ inflight[i].pc = "config"
        /\ initialBalances' = [general |-> orDefault(configSheet.general),
                               provision |-> orDefault(configSheet.provision),
                               carried |-> configSheet.carried]
        /\ monthlyIncomeGoal' = orDefault(configSheet.goal)
        /\ lastRolloverMonth' = configSheet.lastRollover
        /\ UNCHANGED <<envVars, clock, transactions, selectedMonth, formVars, currentDate,
                       sessionVars, busyVars, remoteVars, storage>>
        /\ inflight' = afterEffects(Moved(inflight, i, "txns"))

\* loadConfigForEffect: values.get rejected; the defaults stay
configRejected ==
    \E i \in 1..Len(inflight) :
        /\ inflight[i].kind = "statusUpdateListener" /\ inflight[i].pc = "config"
        /\ inflight' = Moved(inflight, i, "txns")
        /\ UNCHANGED <<envVars, clock, transactions, selectedMonth, formVars, settingsVars,
                       currentDate, sessionVars, busyVars, remoteVars, storage>>

\* loadTransactionsForEffect: values.get resolved; finally of the listener
txnsResolved ==
    \E i \in 1..Len(inflight) :
        /\ inflight[i].kind = "statusUpdateListener" /\ inflight[i].pc = "txns"
        /\ transactions' = loadedTransactions(sheetRows)
        /\ selectedMonth' = monthSelectionEffect(variant, uniqueMonths(transactions'), selectedMonth)
        /\ isLoading' = FALSE
        /\ UNCHANGED <<envVars, clock, formVars, settingsVars, currentDate,
                       sessionVars, isSaving, error, remoteVars, storage>>
        /\ inflight' = afterEffects(Without(inflight, i))

\* what the model's user puts into the form: a blank or a real description,
\* a zero or a positive amount, an expense (the default) or a transfer, either
\* destination; the source select stays at its default
FormValues(name) ==
    CASE name = "description" -> {" ", "d"}
      [] name = "amount" -> {Str(0), Str(2)}
      [] name = "type" -> {EXPENSE, TRANSFER}
      [] name = "destination" -> TransactionSource

FormFields == {"description", "amount", "type", "destination"}

\* handleNewTxChange, the same in both variants
handleNewTxChange ==
    /\ variant = "sheets" => MainView
    /\ \E name \in FormFields : \E value \in FormValues(name) :
        /\ name = "destination" => newTxData.type = TRANSFER
        /\ newTxData' = [newTxData EXCEPT ![name] = value]
    /\ UNCHANGED <<envVars, clock, transactions, selectedMonth, settingsVars, currentDate,
                   sessionVars, busyVars, remoteVars, inflight, storage>>

\* handleAddTransaction (Sheets variant) up to the await of values.append
handleAddTransaction ==
    /\ variant = "sheets"
    /\ MainView
    /\ IF invalidSubmission(newTxData) \/ sameSourceTransfer(newTxData)
       THEN UNCHANGED vars
       ELSE /\ clock < MaxOps
            /\ isSaving' = TRUE
            /\ inflight' = Append(inflight,
                                  Call("handleAddTransaction", "append",
                                       newTransaction(newTxData, clock), transactions, 0, 0))
            /\ clock' = clock + 1
            /\ UNCHANGED <<envVars, transactions, selectedMonth, formVars, settingsVars,
                           currentDate, sessionVars, isLoading, error, remoteVars,
                           storage>>

\* handleAddTransaction after values.append resolved; the list is rebuilt from
\* the `transactions` of the render that submitted
appendResolved ==
    \E i \in 1..Len(inflight) :
        LET call == inflight[i]
            added == [call.tx EXCEPT !.rowIndex = Len(call.txs) + 2]
        IN  /\ call.kind = "handleAddTransaction"
            /\ sheetRows' = Append(sheetRows, rowOf(call.tx))
            /\ transactions' = sortByDateDesc(Append(call.txs, added))
            /\ selectedMonth' = monthSelectionEffect(variant, uniqueMonths(transactions'), selectedMonth)
            /\ newTxData' = FormReset(today)
            /\ isSaving' = FALSE
            /\ UNCHANGED <<envVars, clock, settingsVars, currentDate, sessionVars,
                           isLoading, error, configSheet, storage>>
            /\ inflight' = afterEffects(Without(inflight, i))

\* a variant whose catch also empties the form
appendRejected_ResetsForm ==
    \E i \in 1..Len(inflight) :
        /\ inflight[i].kind = "handleAddTransaction"
        /\ error' = "add"
        /\ isSaving' = FALSE
        /\ newTxData' = FormReset(today)
        /\ inflight' = Without(inflight, i)
        /\ UNCHANGED <<envVars, clock, transactions, selectedMonth, settingsVars,
                       currentDate, sessionVars, isLoading, remoteVars, storage>>

\* handleAddTransaction after values.append rejected
appendRejected ==
    \E i \in 1..Len(inflight) :
        /\ inflight[i].kind = "handleAddTransaction"
        /\ error' = "add"
        /\ isSaving' = FALSE
        /\ inflight' = Without(inflight, i)
        /\ UNCHANGED <<envVars, clock, transactions, selectedMonth, formVars, settingsVars,
                       currentDate, sessionVars, isLoading, remoteVars, storage>>

\* transactions.find(tx => tx.id === id)
find(txs, id) == txs[CHOOSE i \in 1..Len(txs) :
                       /\ txs[i].id = id
                       /\ \A j \in 1..(i - 1) : txs[j].id # id]

\* handleDeleteTransaction (Sheets variant) up to the await of batchUpdate;
\* every listed transaction has a rowIndex, so the lookup branch is not taken
handleDeleteTransaction ==
    /\ variant = "sheets"
    /\ MainView
    /\ \E k \in 1..Len(transactions) : \E confirmed \in BOOLEAN :
        IF ~confirmed
        THEN UNCHANGED vars
        ELSE /\ clock < MaxOps
             /\ isSaving' = TRUE
             /\ inflight' = Append(inflight,
                                   Call("handleDeleteTransaction", "batchUpdate", NoTx, <<>>,
                                        transactions[k].id,
                                        find(transactions, transactions[k].id).rowIndex))
             /\ clock' = clock + 1
             /\ UNCHANGED <<envVars, transactions, selectedMonth, formVars, settingsVars,
                            currentDate, sessionVars, isLoading, error, remoteVars,
                            storage>>

\* handleDeleteTransaction after batchUpdate resolved
batchUpdateResolved ==
    \E i \in 1..Len(inflight) :
        LET call == inflight[i]
        IN  /\ call.kind = "handleDeleteTransaction"
            /\ sheetRows' = deleteRow(sheetRows, call.row)
            /\ transactions' = SelectSeq(transactions, LAMBDA tx : tx.id # call.id)
            /\ selectedMonth' = monthSelectionEffect(variant, uniqueMonths(transactions'), selectedMonth)
            /\ isSaving' = FALSE
            /\ UNCHANGED <<envVars, clock, formVars, settingsVars, currentDate,
                           sessionVars, isLoading, error, configSheet, storage>>
            /\ inflight' = afterEffects(Without(inflight, i))

\* a variant that removes the transaction from the list although the request
\* failed
batchUpdateRejected_Removes ==
    \E i \in 1..Len(inflight) :
        /\ inflight[i].kind = "handleDeleteTransaction"
        /\ error' = "delete"
        /\ isSaving' = FALSE
        /\ transactions' = SelectSeq(transactions, LAMBDA tx : tx.id # inflight[i].id)
        /\ selectedMonth' = monthSelectionEffect(variant, uniqueMonths(transactions'), selectedMonth)
        /\ inflight' = Without(inflight, i)
        /\ UNCHANGED <<envVars, clock, formVars, settingsVars,
                       currentDate, sessionVars, isLoading, remoteVars, storage>>

\* handleDeleteTransaction after batchUpdate rejected
batchUpdateRejected ==
    \E i \in 1..Len(inflight) :
        /\ inflight[i].kind = "handleDeleteTransaction"
        /\ error' = "delete"
        /\ isSaving' = FALSE
        /\ inflight' = Without(inflight, i)
        /\ UNCHANGED <<envVars, clock, transactions, selectedMonth, formVars, settingsVars,
                       currentDate, sessionVars, isLoading, remoteVars, storage>>

NextSheets ==
    \/ gapiScriptLoaded
    \/ handleConnect
    \/ initClientResolved
    \/ initClientRejected
    \/ handleSignIn
    \/ handleSignOut
    \/ metaResolved
    \/ loadRejected
    \/ configResolved
    \/ configRejected
    \/ txnsResolved
    \/ handleNewTxChange
    \/ handleAddTransaction
    \/ appendResolved
    \/ appendRejected
    \/ handleDeleteTransaction
    \/ batchUpdateResolved
    \/ batchUpdateRejected

(***************************************************************************)
(* The local-storage App                                                   *)
(***************************************************************************)
\* const today = new Date(): the page is opened at noon UTC of `today`
NowInstant == today * 24 + 12

\* createDate(day) and the previous month's date of the sample data
createDate(monthShift, day) ==
    DateFromParts(getFullYear(NowInstant), getMonth(NowInstant) + monthShift, day)

\* initialTransactions
initialTransactions ==
    sortByDateDesc(
      <<Tx(1, createDate(0, 15), "d", 17700000, INCOME, GENERAL, Undefined, 0),
        Tx(2, createDate(0, 16), "d", 2000000, TRANSFER, GENERAL, PROVISION, 0),
        Tx(3, createDate(0, 2), "d", 45000, EXPENSE, GENERAL, Undefined, 0),
        Tx(4, createDate(0, 2), "d", 55000, EXPENSE, GENERAL, Undefined, 0),
        Tx(5, createDate(0, 3), "d", 750000, EXPENSE, GENERAL, Undefined, 0),
        Tx(6, createDate(0, 5), "d", 450000, EXPENSE, PROVISION, Undefined, 0),
        Tx(7, createDate(0, 5), "d", 150000, EXPENSE, PROVISION, Undefined, 0),
        Tx(8, createDate(0, 7), "d", 600000, EXPENSE, GENERAL, Undefined, 0),
        Tx(9, createDate(0 - 1, 28), "d", 1200000, EXPENSE, GENERAL, Undefined, 0)>>)

\* the useState initialiser of transactions: the stored list, or the sample
\* data when nothing is stored or JSON.parse throws
restored_SampleWhenEmpty(stored) ==
    IF stored.kind = "json" /\ stored.value # <<>> THEN parse(stored) ELSE initialTransactions

restored(stored) ==
    IF stored.kind = "null" THEN initialTransactions
    ELSE IF stored.kind = "json" THEN parse(stored)
    ELSE initialTransactions

\* the persistence effect: setItem of the list's JSON text; when setItem
\* throws (ok is false) the catch logs and the stored text stays
persisted(stored, txs, ok) == IF ok THEN stringify(txs) ELSE stored

\* the App function's useState initialisers with nothing stored, and the
\* persistence effect of the first render
InitLocal ==
    /\ variant = "local"
    /\ tz = AppTz
    /\ today = CivilToDays(2024, 1, 14)
    /\ clock = 0
    /\ transactions = initialTransactions
    /\ selectedMonth = monthSelectionEffect(variant, uniqueMonths(transactions), NoMonth)
    /\ newTxData = FormReset(today)
    /\ initialBalances = [general |-> Str(0), provision |-> Str(0)]
    /\ monthlyIncomeGoal = Str(0)
    /\ lastRolloverMonth = NoMonth
    /\ currentDate = today
    /\ gapiConfig = Null
    /\ isGapiScriptLoaded = FALSE
    /\ isSignedIn = FALSE
    /\ isLoading = FALSE
    /\ isSaving = FALSE
    /\ error = Null
    /\ sheetIds = FALSE
    /\ authInstance = FALSE
    /\ sheetRows = <<>>
    /\ configSheet = EmptyConfig
    /\ inflight = <<>>
    /\ storage = stringify(initialTransactions)

\* handleAddTransaction (local variant) and the persistence effect
handleAddTransactionLocal ==
    /\ variant = "local"
    /\ IF invalidSubmission(newTxData)
       THEN UNCHANGED vars
       ELSE /\ clock < MaxOps
            /\ transactions' = sortByDateDesc(<<newTransaction(newTxData, clock)>> \o transactions)
            /\ selectedMonth' = monthSelectionEffect(variant, uniqueMonths(transactions'), selectedMonth)
            /\ newTxData' = FormReset(today)
            /\ \E ok \in BOOLEAN : storage' = persisted(storage, transactions', ok)
            /\ clock' = clock + 1
            /\ UNCHANGED <<envVars, settingsVars, currentDate, sessionVars, busyVars,
                           remoteVars, inflight>>

\* the model's user deletes one of the first MaxPick listed transactions
MaxPick == 2

\* handleDeleteTransaction (local variant) and the persistence effect
handleDeleteTransactionLocal ==
    /\ variant = "local"
    /\ \E k \in 1..Len(transactions) : \E confirmed \in BOOLEAN :
        /\ k <= MaxPick
        /\ IF ~confirmed
           THEN UNCHANGED vars
           ELSE /\ clock < MaxOps
                /\ transactions' = SelectSeq(transactions, LAMBDA tx : tx.id # transactions[k].id)
                /\ selectedMonth' = monthSelectionEffect(variant, uniqueMonths(transactions'), selectedMonth)
                /\ \E ok \in BOOLEAN : storage' = persisted(storage, transactions', ok)
                /\ clock' = clock + 1
                /\ UNCHANGED <<envVars, formVars, settingsVars, currentDate, sessionVars,
                               busyVars, remoteVars, inflight>>

\* the page is opened again: the useState initialisers and the persistence
\* effect of the first render
start ==
    /\ variant = "local"
    /\ clock < MaxOps
    /\ transactions' = restored(storage)
    /\ selectedMonth' = monthSelectionEffect(variant, uniqueMonths(transactions'), NoMonth)
    /\ newTxData' = FormReset(today)
    /\ \E ok \in BOOLEAN : storage' = persisted(storage, transactions', ok)
    /\ clock' = clock + 1
    /\ UNCHANGED <<envVars, settingsVars, currentDate, sessionVars, busyVars,
                   remoteVars, inflight>>

NextLocal ==
    \/ handleNewTxChange
    \/ handleAddTransactionLocal
    \/ handleDeleteTransactionLocal
    \/ start

\* what the browser may hold under the key when the page is opened: nothing,
\* a text that is no JSON, an empty list, a list with a transfer, a list with
\* an expense
StoredChoices ==
    {NothingStored, Unparsable, stringify(<<>>),
     stringify(<<Tx(2, createDate(0, 16), "d", 2000000, TRANSFER, GENERAL, PROVISION, 0)>>),
     stringify(<<Tx(3, createDate(0, 2), "d", 45000, EXPENSE, GENERAL, Undefined, 0)>>)}

\* the local-storage App opened on any of them
InitStored ==
    /\ variant = "local"
    /\ tz = AppTz
    /\ today = CivilToDays(2024, 1, 14)
    /\ clock = 0
    /\ \E stored \in StoredChoices : \E ok \in BOOLEAN :
        /\ transactions = restored(stored)
        /\ selectedMonth = monthSelectionEffect(variant, uniqueMonths(transactions), NoMonth)
        /\ storage = persisted(stored, transactions, ok)
    /\ newTxData = FormReset(today)
    /\ initialBalances = [general |-> Str(0), provision |-> Str(0)]
    /\ monthlyIncomeGoal = Str(0)
    /\ lastRolloverMonth = NoMonth
    /\ currentDate = today
    /\ gapiConfig = Null
    /\ isGapiScriptLoaded = FALSE
    /\ isSignedIn = FALSE
    /\ isLoading = FALSE
    /\ isSaving = FALSE
    /\ error = Null
    /\ sheetIds = FALSE
    /\ authInstance = FALSE
    /\ sheetRows = <<>>
    /\ configSheet = EmptyConfig
    /\ inflight = <<>>

SpecLocal == InitStored /\ [][NextLocal]_vars

(***************************************************************************)
(* The App, either variant                                                 *)
(***************************************************************************)
Init == InitSheets \/ InitLocal

Next == NextSheets \/ NextLocal

Spec == Init /\ [][Next]_vars

\* the Sheets App opened on a spreadsheet that holds no transfer within one
\* bucket
CleanSheets ==
    {rows \in SheetChoices :
        \A i \in 1..Len(rows) :
            rows[i].type = TRANSFER => rows[i].source # rows[i].destination}

InitCleanSheet == InitSheets /\ sheetRows \in CleanSheets

SpecCleanSheet == InitCleanSheet /\ [][NextSheets]_vars

(***************************************************************************)
(* The Sheets App: settings, the current date, the rollover's requests     *)
(***************************************************************************)
\* the dates the model's user picks in the currentDate input
DateChoices ==
    {CivilToDays(2024, 1, 16), CivilToDays(2024, 2, 1), CivilToDays(2024, 2, 15)}

\* onChange of the currentDate input: setCurrentDate(e.target.value)
handleCurrentDateChange ==
    /\ variant = "sheets"
    /\ MainView
    /\ clock < MaxOps
    /\ clock' = clock + 1
    /\ \E value \in DateChoices : currentDate' = value
    /\ UNCHANGED <<envVars, transactions, selectedMonth, formVars, settingsVars, sessionVars,
                   busyVars, remoteVars, storage>>
    /\ inflight' = afterEffects(inflight)

\* handleIncomeGoalChange
handleIncomeGoalChange ==
    /\ variant = "sheets"
    /\ MainView
    /\ clock < MaxOps
    /\ clock' = clock + 1
    /\ \E value \in {Str(1)} : monthlyIncomeGoal' = value
    /\ UNCHANGED <<envVars, transactions, selectedMonth, formVars, initialBalances,
                   lastRolloverMonth, currentDate, sessionVars, busyVars, remoteVars,
                   storage>>
    /\ inflight' = afterEffects(inflight)

\* handleInitialBalanceChange
handleInitialBalanceChange ==
    /\ variant = "sheets"
    /\ MainView
    /\ clock < MaxOps
    /\ clock' = clock + 1
    /\ \E name \in {"general", "provision"} : \E value \in {Str(5)} :
          initialBalances' = [initialBalances EXCEPT ![name] = value]
    /\ UNCHANGED <<envVars, transactions, selectedMonth, formVars, monthlyIncomeGoal,
                   lastRolloverMonth, currentDate, sessionVars, busyVars, remoteVars,
                   storage>>
    /\ inflight' = afterEffects(inflight)

\* the rollover effect's values.batchUpdate resolved: Config!B1 and B4 are
\* written, then setInitialBalances(updatedBalances), setLastRolloverMonth
rolloverCarried ==
    \E i \in 1..Len(inflight) :
        LET call == inflight[i]
        IN  /\ call.kind = "rollover" /\ call.pc = "batchUpdate"
            /\ configSheet' = [configSheet EXCEPT !.general = call.balances.general,
                                                  !.lastRollover = call.month,
                                                  !.carried = call.balances.carried]
            /\ initialBalances' = call.balances
            /\ lastRolloverMonth' = call.month
            /\ UNCHANGED <<envVars, clock, transactions, selectedMonth, formVars, monthlyIncomeGoal,
                           currentDate, sessionVars, busyVars, sheetRows, storage>>
            /\ inflight' = afterEffects(Without(inflight, i))

\* the rollover effect's values.update resolved: Config!B4 is written, then
\* setLastRolloverMonth
rolloverRecorded ==
    \E i \in 1..Len(inflight) :
        LET call == inflight[i]
        IN  /\ call.kind = "rollover" /\ call.pc = "update"
            /\ configSheet' = [configSheet EXCEPT !.lastRollover = call.month]
            /\ lastRolloverMonth' = call.month
            /\ UNCHANGED <<envVars, clock, transactions, selectedMonth, formVars, initialBalances,
                           monthlyIncomeGoal, currentDate, sessionVars, busyVars,
                           sheetRows, storage>>
            /\ inflight' = afterEffects(Without(inflight, i))

\* a request of the rollover effect rejected: the batchUpdate has a catch that
\* sets the error, the update has none
rolloverRejected ==
    \E i \in 1..Len(inflight) :
        /\ inflight[i].kind = "rollover"
        /\ error' = IF inflight[i].pc = "batchUpdate" THEN "rollover" ELSE error
        /\ inflight' = Without(inflight, i)
        /\ UNCHANGED <<envVars, clock, transactions, selectedMonth, formVars, settingsVars,
                       currentDate, sessionVars, isLoading, isSaving, remoteVars,
                       storage>>

\* the Sheets App opened on the 15th, in either time zone
InitRollover ==
    /\ variant = "sheets"
    /\ tz \in TzOffsets
    /\ today = CivilToDays(2024, 1, 15)
    /\ clock = 0
    /\ transactions = <<>>
    /\ selectedMonth = NoMonth
    /\ newTxData = FormReset(today)
    /\ initialBalances = [general |-> Str(0), provision |-> Str(0), carried |-> <<>>]
    /\ monthlyIncomeGoal = Str(0)
    /\ lastRolloverMonth = NoMonth
    /\ currentDate = today
    /\ gapiConfig = Null
    /\ isGapiScriptLoaded = FALSE
    /\ isSignedIn = FALSE
    /\ isLoading = FALSE
    /\ isSaving = FALSE
    /\ error = Null
    /\ sheetIds = FALSE
    /\ authInstance = FALSE
    /\ sheetRows \in CleanSheets
    /\ configSheet = StoredConfig
    /\ inflight = <<>>
    /\ storage = NothingStored

\* the model's user does not touch the add form here
NextRollover ==
    \/ gapiScriptLoaded
    \/ handleConnect
    \/ initClientResolved
    \/ initClientRejected
    \/ handleSignIn
    \/ handleSignOut
    \/ metaResolved
    \/ loadRejected
    \/ configResolved
    \/ configRejected
    \/ txnsResolved
    \/ handleDeleteTransaction
    \/ batchUpdateResolved
    \/ batchUpdateRejected
    \/ handleCurrentDateChange
    \/ handleIncomeGoalChange
    \/ handleInitialBalanceChange
    \/ rolloverCarried
    \/ rolloverRecorded
    \/ rolloverRejected

SpecRollover == InitRollover /\ [][NextRollover]_vars

(***************************************************************************)
(* The Sheets App: saving the settings, and the busy indicators            *)
(***************************************************************************)
\* handleSaveSettings up to the await of values.batchUpdate: the request
\* carries the settings of the render that submitted
handleSaveSettings ==
    /\ variant = "sheets"
    /\ MainView
    /\ clock < MaxOps
    /\ isSaving' = TRUE
    /\ inflight' = Append(inflight,
                          [Call("handleSaveSettings", "batchUpdate", NoTx, <<>>, 0, 0)
                              EXCEPT !.balances = initialBalances,
                                     !.goal = monthlyIncomeGoal,
                                     !.month = lastRolloverMonth])
    /\ clock' = clock + 1
    /\ UNCHANGED <<envVars, transactions, selectedMonth, formVars, settingsVars, currentDate,
                   sessionVars, isLoading, error, remoteVars, storage>>

\* handleSaveSettings after batchUpdate resolved: Config!A1:B4 hold the
\* settings sent; finally
saveSettingsResolved ==
    \E i \in 1..Len(inflight) :
        LET call == inflight[i]
        IN  /\ call.kind = "handleSaveSettings"
            /\ configSheet' = [general |-> call.balances.general,
                               provision |-> call.balances.provision,
                               goal |-> call.goal,
                               lastRollover |-> call.month,
                               carried |-> call.balances.carried]
            /\ isSaving' = FALSE
            /\ inflight' = Without(inflight, i)
            /\ UNCHANGED <<envVars, clock, transactions, selectedMonth, formVars, settingsVars,
                           currentDate, sessionVars, isLoading, error, sheetRows,
                           storage>>

\* a variant whose finally is missing
saveSettingsRejected_StaysSaving ==
    \E i \in 1..Len(inflight) :
        /\ inflight[i].kind = "handleSaveSettings"
        /\ error' = "save"
        /\ inflight' = Without(inflight, i)
        /\ UNCHANGED <<envVars, clock, transactions, selectedMonth, formVars, settingsVars,
                       currentDate, sessionVars, isLoading, isSaving, remoteVars,
                       storage>>

\* handleSaveSettings after batchUpdate rejected: catch, finally
saveSettingsRejected ==
    \E i \in 1..Len(inflight) :
        /\ inflight[i].kind = "handleSaveSettings"
        /\ error' = "save"
        /\ isSaving' = FALSE
        /\ inflight' = Without(inflight, i)
        /\ UNCHANGED <<envVars, clock, transactions, selectedMonth, formVars, settingsVars,
                       currentDate, sessionVars, isLoading, remoteVars, storage>>

\* the Sheets App on the spreadsheet the app wrote, with the settings form
InitBusy == InitSheets /\ sheetRows \in CleanSheets /\ sheetRows # <<>>

\* the operations a user starts in one behaviour of the App with the
\* settings form
MaxBusyOps == 1

BusyBound == clock' <= MaxBusyOps

NextBusy ==
    \/ gapiScriptLoaded
    \/ handleConnect
    \/ initClientResolved
    \/ initClientRejected
    \/ handleSignIn /\ BusyBound
    \/ handleSignOut /\ BusyBound
    \/ metaResolved
    \/ loadRejected
    \/ configResolved
    \/ configRejected
    \/ txnsResolved
    \/ handleNewTxChange
    \/ handleAddTransaction /\ BusyBound
    \/ appendResolved
    \/ appendRejected
    \/ handleDeleteTransaction /\ BusyBound
    \/ batchUpdateResolved
    \/ batchUpdateRejected
    \/ handleSaveSettings /\ BusyBound
    \/ saveSettingsResolved
    \/ saveSettingsRejected

\* every request eventually resolves or rejects, and the script loads
Responses ==
    /\ WF_vars(gapiScriptLoaded)
    /\ WF_vars(initClientResolved \/ initClientRejected)
    /\ WF_vars(metaResolved \/ loadRejected \/ configResolved \/ configRejected
                    \/ txnsResolved)
    /\ WF_vars(appendResolved \/ appendRejected)
    /\ WF_vars(batchUpdateResolved \/ batchUpdateRejected)
    /\ WF_vars(saveSettingsResolved \/ saveSettingsRejected)

SpecBusy == InitBusy /\ [][NextBusy]_vars /\ Responses

(***************************************************************************)
(* The month of the daily chart                                            *)
(***************************************************************************)
\* the select of the daily chart: onChange with one of its options, which are
\* the uniqueMonths; the effect then finds nothing to change
handleMonthChange ==
    /\ variant = "sheets" => MainView
    /\ \E i \in 1..Len(uniqueMonths(transactions)) :
        selectedMonth' = uniqueMonths(transactions)[i]
    /\ UNCHANGED <<envVars, clock, transactions, formVars, settingsVars, currentDate,
                   sessionVars, busyVars, remoteVars, inflight, storage>>

\* the local-storage App opened on the sample data or on a stored list, with
\* the select in use
InitMonths == InitLocal \/ InitStored

NextMonths == NextLocal \/ handleMonthChange

SpecMonths == InitMonths /\ [][NextMonths]_vars

(***************************************************************************)
(* The charts and the summary of the selected month                        *)
(***************************************************************************)
RECURSIVE keysOf(_, _)
\* Object.keys of a summary object filled by forEach, given the key of each
\* transaction: the keys in the order of their first transaction (the sorts
\* below do not depend on the order in which an engine lists keys that look
\* like integers)
keysOf(keyed, i) ==
    IF i > Len(keyed) THEN <<>>
    ELSE LET before == {keyed[j] : j \in 1..(i - 1)}
         IN  (IF keyed[i] \in before THEN <<>> ELSE <<keyed[i]>>)
             \o keysOf(keyed, i + 1)

\* month.substring(5, 7): "MM", here the number of the month, 1..12
substring57(month) == (month % 12) + 1

\* tx.date.substring(8, 10): "DD" of an ISO timestamp, here the day number
substring810(date) == DaysToCivil(date \div 24).d

\* where a stable ascending sort by localeCompare of two-digit labels puts x
insertByLabel(acc, x, label) ==
    LET k == Cardinality({i \in 1..Len(acc) : acc[i][label] <= x[label]})
    IN  SubSeq(acc, 1, k) \o <<x>> \o SubSeq(acc, k + 1, Len(acc))

RECURSIVE sortByLabel(_, _, _, _)
sortByLabel(acc, entries, i, label) ==
    IF i > Len(entries) THEN acc
    ELSE sortByLabel(insertByLabel(acc, entries[i], label), entries, i + 1, label)

\* processMonthlyData: the object monthlySummary after the forEach
monthlySummaryOf(txs) ==
    LET sumOf(month, type) ==
            SumAmounts(txs, 1, [i \in 1..Len(txs) |->
                                   substring7(txs[i].date) = month /\ txs[i].type = type])
    IN  [month \in {substring7(txs[i].date) : i \in 1..Len(txs)} |->
            [income |-> sumOf(month, INCOME), expense |-> sumOf(month, EXPENSE)]]

\* processMonthlyData: Object.keys(monthlySummary).map(...).sort(...)
processMonthlyData(txs) ==
    LET monthlySummary == monthlySummaryOf(txs)
        keys == keysOf([i \in 1..Len(txs) |-> substring7(txs[i].date)], 1)
        entries == [k \in 1..Len(keys) |->
                       [month |-> substring57(keys[k]),
                        income |-> monthlySummary[keys[k]].income,
                        expense |-> monthlySummary[keys[k]].expense]]
    IN  sortByLabel(<<>>, entries, 1, "month")

\* a variant that charts every transaction of the month, not only expenses
processDailyData_AllTypes(txs, month) ==
    LET shown == SelectSeq(txs, LAMBDA tx : substring7(tx.date) = month)
        dayOf(tx) == substring810(tx.date)
        keys == keysOf([i \in 1..Len(shown) |-> dayOf(shown[i])], 1)
        entries == [k \in 1..Len(keys) |->
                       [day |-> keys[k],
                        expense |-> SumAmounts(shown, 1,
                                       [i \in 1..Len(shown) |-> dayOf(shown[i]) = keys[k]])]]
    IN  sortByLabel(<<>>, entries, 1, "day")

\* processDailyData, for a selectedMonth 'YYYY-MM'
processDailyData(txs, month) ==
    LET shown == SelectSeq(txs, LAMBDA tx : substring7(tx.date) = month /\ tx.type = EXPENSE)
        dayOf(tx) == substring810(tx.date)
        keys == keysOf([i \in 1..Len(shown) |-> dayOf(shown[i])], 1)
        entries == [k \in 1..Len(keys) |->
                       [day |-> keys[k],
                        expense |-> SumAmounts(shown, 1,
                                       [i \in 1..Len(shown) |-> dayOf(shown[i]) = keys[k]])]]
    IN  sortByLabel(<<>>, entries, 1, "day")

\* const dailyData
dailyDataOf(txs, month) == IF month = NoMonth THEN <<>> ELSE processDailyData(txs, month)

\* selectedMonthSummary
selectedMonthSummaryOf(txs, month) ==
    IF month = NoMonth
    THEN [income |-> 0, expense |-> 0, transferOut |-> 0, remaining |-> 0]
    ELSE LET inMonth == [i \in 1..Len(txs) |-> substring7(txs[i].date) = month]
             income == SumAmounts(txs, 1, [i \in 1..Len(txs) |->
                                              inMonth[i] /\ txs[i].type = INCOME])
             expense == SumAmounts(txs, 1, [i \in 1..Len(txs) |->
                                               inMonth[i] /\ txs[i].type = EXPENSE])
             transferOut == SumAmounts(txs, 1, [i \in 1..Len(txs) |->
                                                   /\ inMonth[i]
                                                   /\ txs[i].type = TRANSFER
                                                   /\ txs[i].source = GENERAL])
         IN  [income |-> income, expense |-> expense, transferOut |-> transferOut,
              remaining |-> income - expense - transferOut]

monthlyData == processMonthlyData(transactions)
dailyData == dailyDataOf(transactions, selectedMonth)
selectedMonthSummary == selectedMonthSummaryOf(transactions, selectedMonth)

(***************************************************************************)
(* SpecCharts: the chart functions on every list and selected month        *)
(***************************************************************************)
MaxChartLen == 2

ChartDays == {CivilToDays(2023, 1, 5), CivilToDays(2023, 12, 28),
              CivilToDays(2024, 1, 2), CivilToDays(2024, 1, 5)}
ChartMonths == {NoMonth} \cup {substring7(DateFromString(day)) : day \in ChartDays}
\* each kind of transaction with an amount of its own, so that a total tells
\* which kinds were added up
ChartKinds == {<<EXPENSE, GENERAL, Undefined, 1>>, <<EXPENSE, PROVISION, Undefined, 4>>,
               <<TRANSFER, GENERAL, PROVISION, 16>>, <<TRANSFER, PROVISION, GENERAL, 64>>,
               <<INCOME, GENERAL, Undefined, 256>>}
ChartTxs ==
    {Tx(1, DateFromString(day), "d", k[4], k[1], k[2], k[3], 0) :
        k \in ChartKinds, day \in ChartDays}

InitCharts ==
    /\ variant = "sheets"
    /\ tz = 0
    /\ today = CivilToDays(2024, 1, 14)
    /\ clock = 0
    /\ transactions = <<>>
    /\ selectedMonth \in ChartMonths
    /\ newTxData = FormReset(today)
    /\ initialBalances = [general |-> Str(0), provision |-> Str(0)]
    /\ monthlyIncomeGoal = Str(0)
    /\ currentDate = today
    /\ Unmounted

\* the next list of the enumeration: one more transaction at the end
ChartExtend ==
    /\ Len(transactions) < MaxChartLen
    /\ \E tx \in ChartTxs : transactions' = Append(transactions, tx)
    /\ UNCHANGED <<envVars, clock, selectedMonth, formVars, settingsVars, currentDate,
                   sessionVars, busyVars, remoteVars, inflight, storage>>

SpecCharts == InitCharts /\ [][ChartExtend]_vars

(***************************************************************************)
(* SpecOrder: the balances and currentMonthStats on lists in every order   *)
(***************************************************************************)
MaxOrderLen == 3

\* one transaction of each kind, on either side of the 15th, each with an
\* amount of its own
OrderTxs ==
    {Tx(1, DateFromString(CivilToDays(2024, 1, 14)), "d", 1, EXPENSE, GENERAL, Undefined, 0),
     Tx(2, DateFromString(CivilToDays(2024, 1, 15)), "d", 2, EXPENSE, PROVISION, Undefined, 0),
     Tx(3, DateFromString(CivilToDays(2024, 1, 14)), "d", 4, TRANSFER, GENERAL, PROVISION, 0),
     Tx(4, DateFromString(CivilToDays(2024, 1, 15)), "d", 8, TRANSFER, PROVISION, GENERAL, 0),
     Tx(5, DateFromString(CivilToDays(2024, 1, 14)), "d", 16, INCOME, GENERAL, Undefined, 0),
     Tx(6, DateFromString(CivilToDays(2024, 1, 15)), "d", 32, INCOME, PROVISION, Undefined, 0)}

InitOrder ==
    /\ variant = "sheets"
    /\ tz \in TzOffsets
    /\ today = CivilToDays(2024, 1, 14)
    /\ clock = 0
    /\ transactions = <<>>
    /\ selectedMonth = NoMonth
    /\ newTxData = FormReset(today)
    /\ initialBalances = [general |-> Str(5), provision |-> EmptyStr]
    /\ monthlyIncomeGoal \in {Str(0), Str(3)}
    /\ currentDate \in {CivilToDays(2024, 1, 14), CivilToDays(2024, 1, 15)}
    /\ Unmounted

\* the next list of the enumeration: one more transaction at the end
OrderExtend ==
    /\ Len(transactions) < MaxOrderLen
    /\ \E tx \in OrderTxs : transactions' = Append(transactions, tx)
    /\ UNCHANGED <<envVars, clock, selectedMonth, formVars, settingsVars, currentDate,
                   sessionVars, busyVars, remoteVars, inflight, storage>>

SpecOrder == InitOrder /\ [][OrderExtend]_vars

----
(***************************************************************************)
(* Claims                                                                  *)
(***************************************************************************)
RECURSIVE SumOver(_, _, _)
\* the sum of f-values over txs[i..]
SumOver(txs, i, f) ==
    IF i > Len(txs) THEN 0 ELSE f[txs[i]] + SumOver(txs, i + 1, f)

\* the rule of C1, per transaction: what it adds to general and to provision
RuleGeneral(tx) ==
    IF tx.type = INCOME /\ tx.source = GENERAL THEN tx.amount
    ELSE IF tx.type = EXPENSE /\ tx.source = GENERAL THEN 0 - tx.amount
    ELSE IF tx.type = TRANSFER /\ tx.source = GENERAL /\ tx.destination = PROVISION
    THEN 0 - tx.amount
    ELSE IF tx.type = TRANSFER /\ tx.source = PROVISION /\ tx.destination = GENERAL
    THEN tx.amount
    ELSE 0

RuleProvision(tx) ==
    IF tx.type = INCOME /\ tx.source = PROVISION THEN tx.amount
    ELSE IF tx.type = EXPENSE /\ tx.source = PROVISION THEN 0 - tx.amount
    ELSE IF tx.type = TRANSFER /\ tx.source = GENERAL /\ tx.destination = PROVISION
    THEN tx.amount
    ELSE IF tx.type = TRANSFER /\ tx.source = PROVISION /\ tx.destination = GENERAL
    THEN 0 - tx.amount
    ELSE 0

TxsOf(txs) == {txs[i] : i \in 1..Len(txs)}

InitialValue(s) == IF s.num THEN s.v ELSE 0

\* C1: in the Sheets variant the displayed balances are the initial balances
\* plus, per bucket, the sum over the list of what the rule gives each
\* transaction (INCOME adds to its source, EXPENSE subtracts from its source,
\* a TRANSFER between the two buckets moves its amount, anything else changes
\* nothing).
C1_SheetsBalancesFollowRule ==
    /\ balances.general =
          InitialValue(initialBalances.general)
          + SumOver(transactions, 1, [tx \in TxsOf(transactions) |-> RuleGeneral(tx)])
    /\ balances.provision =
          InitialValue(initialBalances.provision)
          + SumOver(transactions, 1, [tx \in TxsOf(transactions) |-> RuleProvision(tx)])

\* a list with a transfer in each direction, an expense from provision and a
\* transfer that the rule ignores has been folded
C1_Witness ==
    /\ Len(transactions) = 2
    /\ transactions[1].type = TRANSFER /\ transactions[1].source = PROVISION
    /\ transactions[1].destination = GENERAL
    /\ transactions[2].type = TRANSFER /\ transactions[2].source = GENERAL
    /\ transactions[2].destination = GENERAL
    /\ initialBalances.general = Str(5)
    /\ balances.general = 5 + transactions[1].amount

Amount(type) == [tx \in TxsOf(transactions) |-> IF tx.type = type THEN tx.amount ELSE 0]

Prefix(txs, n) == SubSeq(txs, 1, n)

Total(b) == b.general + b.provision

\* C2: in both variants general + provision is the sum of the initial balances
\* (zero in the local-storage variant) plus all INCOME amounts minus all
\* EXPENSE amounts, and a TRANSFER leaves general + provision as it was.
C2_MoneyConserved ==
    /\ Total(balances) =
          InitialValue(initialBalances.general) + InitialValue(initialBalances.provision)
          + SumOver(transactions, 1, Amount(INCOME)) - SumOver(transactions, 1, Amount(EXPENSE))
    /\ Total(balancesLocal) =
          SumOver(transactions, 1, Amount(INCOME)) - SumOver(transactions, 1, Amount(EXPENSE))
    /\ \A i \in 1..Len(transactions) :
          transactions[i].type = TRANSFER =>
              /\ Total(balancesOf(Prefix(transactions, i), initialBalances))
                    = Total(balancesOf(Prefix(transactions, i - 1), initialBalances))
              /\ Total(balancesLocalOf(Prefix(transactions, i)))
                    = Total(balancesLocalOf(Prefix(transactions, i - 1)))

\* an income paid into provision followed by a transfer out of provision
C2_Witness ==
    /\ Len(transactions) = 2
    /\ transactions[1].type = INCOME /\ transactions[1].source = PROVISION
    /\ transactions[2].type = TRANSFER /\ transactions[2].source = PROVISION
    /\ transactions[2].destination = GENERAL
    /\ Total(balancesLocal) = transactions[1].amount
    /\ Total(balances) = 8 + transactions[1].amount

\* C3: in the local-storage variant a TRANSFER between the two buckets lowers
\* its source bucket and raises its destination bucket by its amount.
C3_LocalTransferMoves ==
    \A i \in 1..Len(transactions) :
        LET tx == transactions[i]
            before == balancesLocalOf(Prefix(transactions, i - 1))
            after == balancesLocalOf(Prefix(transactions, i))
        IN  /\ (tx.type = TRANSFER /\ tx.source = GENERAL /\ tx.destination = PROVISION)
                => /\ after.general = before.general - tx.amount
                   /\ after.provision = before.provision + tx.amount
            /\ (tx.type = TRANSFER /\ tx.source = PROVISION /\ tx.destination = GENERAL)
                => /\ after.provision = before.provision - tx.amount
                   /\ after.general = before.general + tx.amount

\* C4: the local-storage variant computes the balances the Sheets variant
\* computes from initial balances of zero.
C4_VariantsAgree ==
    balancesLocal = balancesOf(transactions, [general |-> Str(0), provision |-> Str(0)])

\* a transfer within one bucket
SelfTransfer(tx) == tx.type = TRANSFER /\ tx.source = tx.destination

\* the transactions this session's handleAddTransaction created
Accepted(tx) == tx.id >= TxnId(0)

\* the add requests in flight
PendingAdds == {i \in 1..Len(inflight) : inflight[i].kind = "handleAddTransaction"}

\* C5: in the Sheets variant a submission of a TRANSFER whose source equals
\* its destination starts no append request and leaves the transaction list
\* and the spreadsheet unchanged; opened on a spreadsheet without such a
\* transfer, the list never holds one, whatever is loaded, added or deleted.
C5_NoSelfTransferSheets ==
    /\ [][(handleAddTransaction /\ newTxData.type = TRANSFER
                                /\ newTxData.source = newTxData.destination)
            => UNCHANGED <<inflight, transactions, sheetRows, isSaving>>]_vars
    /\ [](\A i \in 1..Len(transactions) : ~SelfTransfer(transactions[i]))
    /\ [](\A i \in PendingAdds : ~SelfTransfer(inflight[i].tx))

\* a transfer was added in this session, and the form now holds a complete
\* transfer from GENERAL to GENERAL, ready to be submitted
C5_Witness ==
    /\ variant = "sheets"
    /\ MainView
    /\ \E i \in 1..Len(transactions) :
          Accepted(transactions[i]) /\ transactions[i].type = TRANSFER
    /\ ~invalidSubmission(newTxData)
    /\ newTxData.type = TRANSFER
    /\ newTxData.source = newTxData.destination

\* C6: in the local-storage variant, started on the sample data, every
\* TRANSFER of the list has a source different from its destination.
C6_NoSelfTransferLocal ==
    variant = "local" =>
        \A i \in 1..Len(transactions) : ~SelfTransfer(transactions[i])

\* C7: in the Sheets variant every transaction of the list has a non-negative
\* amount.
C7_SheetsAmountsNonNegative ==
    variant = "sheets" =>
        \A i \in 1..Len(transactions) : transactions[i].amount >= 0

\* the form as C8 describes a submission to reject
BlankOrNotPositive ==
    \/ trim(newTxData.description) = ""
    \/ ~newTxData.amount.num
    \/ newTxData.amount.v <= 0

\* C8: in both variants a submission whose description is blank, or whose
\* amount is not a number or is not above zero, changes neither the list, the
\* form, the spreadsheet nor the stored list and starts no save; every
\* transaction handleAddTransaction accepts has an amount above zero.
C8_InvalidSubmissionRejected ==
    /\ [][((handleAddTransaction \/ handleAddTransactionLocal) /\ BlankOrNotPositive)
            => UNCHANGED <<transactions, newTxData, sheetRows, storage, isSaving,
                           inflight>>]_vars
    /\ [](\A i \in 1..Len(transactions) :
              Accepted(transactions[i]) => transactions[i].amount > 0)
    /\ [](\A i \in PendingAdds : inflight[i].tx.amount > 0)

\* after an accepted transaction the form holds a description of blanks and
\* the amount 0 in the Sheets App, and a real description and the amount 0 in
\* the local one
C8_Witness ==
    /\ \E i \in 1..Len(transactions) : Accepted(transactions[i])
    /\ newTxData.amount = Str(0)
    /\ \/ variant = "sheets" /\ MainView /\ newTxData.description = " "
       \/ variant = "local" /\ newTxData.description = "d"

\* the calendar day of a transaction: the date part of its ISO text
TxDay(tx) == tx.date \div 24

\* the 15th of the month that is k months after the month of day number z
Fifteenth(z, k) ==
    LET c == DaysToCivil(z)
        mi == (c.m - 1) + k
    IN  CivilToDays(c.y + mi \div 12, (mi % 12) + 1, 15)

\* the period of C9, in calendar days: [first, last)
ClaimedPeriod(date) ==
    IF DaysToCivil(date).d < 15
    THEN [first |-> Fifteenth(date, 0 - 1), last |-> Fifteenth(date, 0)]
    ELSE [first |-> Fifteenth(date, 0), last |-> Fifteenth(date, 1)]

ClaimedUsed(txs, date) ==
    LET p == ClaimedPeriod(date)
    IN  SumOver(txs, 1,
            [tx \in TxsOf(txs) |->
                IF /\ TxDay(tx) >= p.first /\ TxDay(tx) < p.last
                   /\ (tx.type = EXPENSE \/ (tx.type = TRANSFER /\ tx.source = GENERAL))
                THEN tx.amount ELSE 0])

\* C9: totalUsed is the sum of the EXPENSE amounts and the general-sourced
\* TRANSFER amounts whose date lies in the half-open 15th-to-15th period that
\* contains the current date; a transaction dated on a 15th counts in the
\* period that starts that day.
C9_PeriodIsFifteenthToFifteenth ==
    currentMonthStats.totalUsed = ClaimedUsed(transactions, currentDate)

NonNegativeAmounts == \A i \in 1..Len(transactions) : transactions[i].amount >= 0

\* C10: with non-negative amounts progress is within 0..100 and is 100 exactly
\* when goal > 0 and totalUsed >= goal; with a goal that is <= 0 or not a
\* number progress and remaining are 0; with goal > 0 remaining is
\* goal - totalUsed, negative when the period is overspent.
C10_ProgressAndRemaining ==
    LET st == currentMonthStats
        positive == monthlyIncomeGoal.num /\ monthlyIncomeGoal.v > 0
        goal == monthlyIncomeGoal.v
    IN  NonNegativeAmounts =>
            /\ 0 <= st.progress.n /\ st.progress.n <= 100 * st.progress.d
            /\ st.progress.d > 0
            /\ (st.progress.n = 100 * st.progress.d) <=> (positive /\ st.totalUsed >= goal)
            /\ ~positive => (st.progress.n = 0 /\ st.remaining = 0)
            /\ positive => /\ st.remaining = goal - st.totalUsed
                           /\ (st.totalUsed > goal => st.remaining < 0)

\* an overspent period: goal 3, 4 used in the period
C10_Witness ==
    /\ monthlyIncomeGoal = Str(3)
    /\ currentMonthStats.totalUsed = 4
    /\ currentMonthStats.remaining = 0 - 1
    /\ currentMonthStats.progress = [n |-> 100, d |-> 1]

\* the month of a date text, as the text spells it
TextMonth(date) == DaysToCivil(date).y * 12 + (DaysToCivil(date).m - 1)

\* what a list spent from the general budget between the 15th of the month
\* before the date text's month and the 15th of that month, in calendar days
PrevPeriodUsed(txs, date) ==
    SumOver(txs, 1,
        [tx \in TxsOf(txs) |->
            IF /\ TxDay(tx) >= Fifteenth(date, 0 - 1) /\ TxDay(tx) < Fifteenth(date, 0)
               /\ (tx.type = EXPENSE \/ (tx.type = TRANSFER /\ tx.source = GENERAL))
            THEN tx.amount ELSE 0])

\* C11: when the rollover's write of a positive amount succeeds with the
\* current date in month M, the initial general balance grows by exactly the
\* goal minus what was spent from the general budget between the 15th of M-1
\* and the 15th of M, lastRolloverMonth becomes M, and the provision balance,
\* the goal and the list stay as they were.
C11_RolloverCarriesUnspent ==
    [][rolloverCarried =>
        /\ initialBalances'.general =
               Str(InitialValue(initialBalances.general)
                   + OrZero(parseFloat(monthlyIncomeGoal))
                   - PrevPeriodUsed(transactions, currentDate))
        /\ lastRolloverMonth' = TextMonth(currentDate)
        /\ initialBalances'.provision = initialBalances.provision
        /\ UNCHANGED <<monthlyIncomeGoal, transactions>>]_vars

\* the rollover's requests among the pending ones, oldest first
IsRollover(call) == call.kind = "rollover"

pendingRollovers(calls) == SelectSeq(calls, IsRollover)

\* a step that issues no rollover request: the pending ones stay or lose one
NoNewCall ==
    LET before == pendingRollovers(inflight)
        after == pendingRollovers(inflight')
    IN  \/ after = before
        \/ \E i \in 1..Len(before) : after = Without(before, i)

\* a step in which the rollover effect fires: its request is the newest one
RolloverFires == ~NoNewCall /\ inflight'[Len(inflight')].kind = "rollover"

C13_CarriedAtMostOnce ==
    \A i, j \in 1..Len(initialBalances.carried) :
        i # j => initialBalances.carried[i] # initialBalances.carried[j]

\* C17: the rollover effect issues a write only when the user is signed in, a
\* configuration is set, the day of the month of the current date is at
\* least 15 and lastRolloverMonth differs from the current date's month.
C17_RolloverOnlyWhenDue ==
    [][RolloverFires =>
        /\ isSignedIn' /\ gapiConfig' # Null
        /\ DaysToCivil(currentDate').d >= 15
        /\ lastRolloverMonth' # TextMonth(currentDate')]_vars

\* C18: from the sign-in until the initial load has ended (isLoading is set)
\* the rollover issues no write to the Config sheet: none is derived from the
\* default balances and goal or from a list that is not loaded yet.
C18_NoRolloverWhileLoading ==
    [][RolloverFires => ~isLoading']_vars

\* the ids of the list in memory and of the rows of the Transactions sheet
\* (a row without id is no transaction)
IdsInMemory == {transactions[i].id : i \in 1..Len(transactions)}

IdsInSheet(rows) == {rows[i].id : i \in 1..Len(rows)} \ {0}

\* C14: in the Sheets variant, starting from a loaded list, adds and deletes
\* whose requests succeed keep the ids in memory equal to the ids in the
\* sheet: a successful append or delete that starts with the two sets equal
\* ends with them equal.
C14_MemoryMatchesSheet ==
    [][(/\ appendResolved \/ batchUpdateResolved
        /\ isSignedIn /\ ~isLoading /\ error = Null
        /\ IdsInMemory = IdsInSheet(sheetRows))
       => IdsInMemory' = IdsInSheet(sheetRows')]_vars

\* C19: in the Sheets variant, once the list is loaded and no request is
\* pending, every transaction in memory carries as rowIndex the 1-based row
\* of the Transactions sheet that holds its id.
C19_RowIndexIsSheetRow ==
    (/\ variant = "sheets" /\ isSignedIn /\ ~isLoading /\ error = Null
     /\ inflight = <<>>)
    => \A i \in 1..Len(transactions) :
           /\ transactions[i].rowIndex \in 1..Len(sheetRows)
           /\ sheetRows[transactions[i].rowIndex].id = transactions[i].id

\* C16: in the Sheets variant, however the invocations of handleAddTransaction
\* interleave, every appended transaction is in the list in memory once they
\* have completed: the completion of a successful append adds its transaction
\* and drops no transaction that an earlier append put into the list.
C16_NoAppendedLost ==
    [][appendResolved =>
        /\ \E i \in 1..Len(transactions') : Accepted(transactions'[i])
        /\ \A i \in 1..Len(transactions) :
               Accepted(transactions[i]) => transactions[i].id \in IdsInMemory']_vars

\* C20: in the Sheets variant a failed append leaves the list and the form
\* as they were, sets the error message and ends with isSaving false; the
\* list gains a submitted transaction only when an append has succeeded (or a
\* load reads it back), and only a successful append or the user's typing
\* changes the form.
C20_FailedAppendChangesNothing ==
    [][/\ appendRejected
          => /\ UNCHANGED <<transactions, newTxData, sheetRows>>
             /\ error' # Null /\ ~isSaving'
       /\ (/\ variant = "sheets"
           /\ \E id \in IdsInMemory' \ IdsInMemory : id >= TxnId(0))
          => appendResolved \/ txnsResolved
       /\ (variant = "sheets" /\ newTxData' # newTxData)
          => appendResolved \/ handleNewTxChange]_vars

\* an append has failed: the error is set, nothing is being saved, and the
\* form still holds what was submitted
C20_Witness ==
    /\ variant = "sheets" /\ error = "add" /\ ~isSaving
    /\ newTxData.description = "d" /\ newTxData.amount = Str(2)
    /\ \A i \in 1..Len(transactions) : ~Accepted(transactions[i])

PendingLoads == {i \in 1..Len(inflight) : inflight[i].kind = "statusUpdateListener"}

C24_SignOutClearsSession ==
    (variant = "sheets" /\ ~isSignedIn)
    => /\ transactions = <<>>
       /\ initialBalances.general = Str(0)
       /\ initialBalances.provision = Str(0)
       /\ monthlyIncomeGoal = Str(0)
       /\ lastRolloverMonth = NoMonth


(***************************************************************************)
(* C25: a failed read of the Config sheet is not an error.  When it fails  *)
(* the initial balances, the goal and lastRolloverMonth are at their       *)
(* defaults ('0', '0', '0', ''), no error is set, the list is untouched    *)
(* and the load goes on to read the Transactions sheet; a failed read of   *)
(* the metadata or of the Transactions sheet sets the error and leaves the *)
(* list unchanged.                                                         *)
(***************************************************************************)
ConfigReadFailsQuietly ==
    configRejected
    => /\ UNCHANGED <<settingsVars, error, transactions>>
       /\ \E i \in 1..Len(inflight') :
            inflight'[i].kind = "statusUpdateListener" /\ inflight'[i].pc = "txns"

LoadFailureIsReported ==
    loadRejected => error' # Null /\ UNCHANGED transactions

C25_ConfigFailureKeepsDefaults ==
    [][/\ ConfigReadFailsQuietly
       /\ LoadFailureIsReported
       /\ configRejected
          => /\ initialBalances'.general = Str(0)
             /\ initialBalances'.provision = Str(0)
             /\ monthlyIncomeGoal' = Str(0)
             /\ lastRolloverMonth' = NoMonth]_vars


(***************************************************************************)
(* C26: the selected month is always a month of the list.  In both         *)
(* variants, after every add, delete, load and manual selection (the       *)
(* effect having run), selectedMonth is '' when the list is empty and      *)
(* otherwise one of the months 'YYYY-MM' in which the list has a           *)
(* transaction; whenever the effect chooses it, it is the most recent of   *)
(* those months.                                                           *)
(***************************************************************************)
MonthsOfList(txs) == {substring7(txs[i].date) : i \in 1..Len(txs)}

SelectionIsListed ==
    IF transactions = <<>>
    THEN selectedMonth = NoMonth
    ELSE selectedMonth \in MonthsOfList(transactions)

ChosenIsNewest ==
    (~handleMonthChange /\ selectedMonth' # selectedMonth /\ selectedMonth' # NoMonth)
    => \A m \in MonthsOfList(transactions') : m <= selectedMonth'

C26_SelectedMonthIsListed ==
    /\ []SelectionIsListed
    /\ [][ChosenIsNewest]_vars


(***************************************************************************)
(* C27: the three summaries agree.  For every list and selected month the  *)
(* expenses of the processDailyData entries add up to the expense of       *)
(* selectedMonthSummary, which is the expense processMonthlyData has for   *)
(* that 'YYYY-MM' (and shows in an entry labelled with its month);         *)
(* selectedMonthSummary.remaining is the month's income minus its expense  *)
(* minus its TRANSFER amounts out of the general source, a TRANSFER being  *)
(* counted neither as income nor as expense.                               *)
(***************************************************************************)
RECURSIVE DailyTotal(_, _)
DailyTotal(entries, i) ==
    IF i > Len(entries) THEN 0 ELSE entries[i].expense + DailyTotal(entries, i + 1)

\* the amounts of the list's transactions of the selected month that satisfy
\* a condition on type and source, added up
MonthTotal(types, sources) ==
    SumOver(transactions, 1,
            [tx \in TxsOf(transactions) |->
                IF /\ substring7(tx.date) = selectedMonth
                   /\ tx.type \in types
                   /\ tx.source \in sources
                THEN tx.amount ELSE 0])

C27_SummariesAgree ==
    LET monthlySummary == monthlySummaryOf(transactions)
        charted == selectedMonth \in DOMAIN monthlySummary
    IN  /\ DailyTotal(dailyData, 1) = selectedMonthSummary.expense
        /\ selectedMonthSummary.expense
             = (IF charted THEN monthlySummary[selectedMonth].expense ELSE 0)
        /\ charted => \E i \in 1..Len(monthlyData) :
                         /\ monthlyData[i].month = substring57(selectedMonth)
                         /\ monthlyData[i].expense = selectedMonthSummary.expense
        /\ selectedMonthSummary.income = MonthTotal({INCOME}, TransactionSource)
        /\ selectedMonthSummary.expense = MonthTotal({EXPENSE}, TransactionSource)
        /\ selectedMonthSummary.remaining
             = MonthTotal({INCOME}, TransactionSource)
               - MonthTotal({EXPENSE}, TransactionSource)
               - MonthTotal({TRANSFER}, {GENERAL})

\* an expense and a transfer out of the general source in the selected month
C27_Witness ==
    /\ selectedMonth = substring7(DateFromString(CivilToDays(2024, 1, 2)))
    /\ Len(transactions) = 2
    /\ selectedMonthSummary.expense > 0
    /\ selectedMonthSummary.transferOut > 0
    /\ selectedMonthSummary.remaining < 0
    /\ Len(monthlyData) = 1
    /\ Len(dailyData) = 1


(***************************************************************************)
(* C28: the monthly chart has one entry per calendar month, in order.      *)
(* processMonthlyData returns as many entries as the list has distinct     *)
(* calendar months, no two entries carry the same label, and the entries   *)
(* are those of the months in chronological order, also when the list      *)
(* spans more than one year.                                               *)
(***************************************************************************)
\* the distinct calendar months of the list, oldest first
Chronological(txs) ==
    LET newestFirst == sortReverse(MonthsOfList(txs))
    IN  [i \in 1..Len(newestFirst) |-> newestFirst[Len(newestFirst) + 1 - i]]

C28_OneEntryPerMonthInOrder ==
    LET months == Chronological(transactions)
        monthlySummary == monthlySummaryOf(transactions)
    IN  /\ Len(monthlyData) = Len(months)
        /\ \A i, j \in 1..Len(monthlyData) :
              i # j => monthlyData[i].month # monthlyData[j].month
        /\ \A i \in 1..Len(monthlyData) :
              /\ monthlyData[i].month = substring57(months[i])
              /\ monthlyData[i].income = monthlySummary[months[i]].income
              /\ monthlyData[i].expense = monthlySummary[months[i]].expense


(***************************************************************************)
(* C29: balances and period totals do not depend on the order of the list. *)
(* For every list and every permutation of it, the general and provision   *)
(* balances of both variants and totalUsed, remaining and progress of      *)
(* currentMonthStats are the same.                                         *)
(***************************************************************************)
Orderings(n) ==
    {p \in [1..n -> 1..n] : \A i, j \in 1..n : i # j => p[i] # p[j]}

Permuted(txs, p) == [i \in 1..Len(txs) |-> txs[p[i]]]

C29_OrderIndependent ==
    \A p \in Orderings(Len(transactions)) :
        LET shuffled == Permuted(transactions, p)
        IN  /\ balancesOf(shuffled, initialBalances) = balances
            /\ balancesLocalOf(shuffled) = balancesLocal
            /\ currentMonthStatsOf(shuffled, monthlyIncomeGoal, currentDate)
                 = currentMonthStats

\* three different transactions, an expense and a transfer counted in the
\* period, all counted in the balances
C29_Witness ==
    /\ Len(transactions) = 3
    /\ transactions[1].type = EXPENSE
    /\ transactions[2].type = TRANSFER
    /\ transactions[3].type = INCOME
    /\ currentMonthStats.totalUsed = 5
    /\ currentMonthStats.remaining = 0 - 2
    /\ balances.provision = 4
    /\ balancesLocal.provision = 4


(***************************************************************************)
(* C30: the rollover carries what the progress display reported.  For the  *)
(* same list and a goal above 0, the amount the rollover effect computes   *)
(* on a current date on or after the 15th of a month M is the `remaining`  *)
(* that currentMonthStats shows on every current date before the 15th of   *)
(* M, and the rollover's request changes the general balance exactly when  *)
(* that value is positive, by that value.                                  *)
(***************************************************************************)
\* current dates of January 2024 before the 15th, and on or after it
DaysBeforeFifteenth == {CivilToDays(2024, 1, 1), CivilToDays(2024, 1, 14)}
DaysFromFifteenth == {CivilToDays(2024, 1, 15), CivilToDays(2024, 1, 16),
                      CivilToDays(2024, 1, 31)}

\* the effect gets as far as computing the amount
RolloverComputes(date) == rolloverDue(TRUE, "config", date, NoMonth)

C30_RolloverCarriesRemaining ==
    OrZero(parseFloat(monthlyIncomeGoal)) > 0
    => \A shown \in DaysBeforeFifteenth : \A due \in DaysFromFifteenth :
          LET remaining == currentMonthStatsOf(transactions, monthlyIncomeGoal, shown).remaining
              request == rolloverRequest(due, transactions, monthlyIncomeGoal, initialBalances)
          IN  RolloverComputes(due)
              => /\ rolloverAmount(due, transactions, monthlyIncomeGoal) = remaining
                 /\ request.pc = "batchUpdate" <=> remaining > 0
                 /\ request.pc = "batchUpdate"
                    => parseFloat(request.balances.general).v
                         = OrZero(parseFloat(initialBalances.general)) + remaining

\* a goal of 3 of which 1 was spent in the period: 2 are carried
C30_Witness ==
    /\ monthlyIncomeGoal = Str(3)
    /\ Len(transactions) = 2
    /\ transactions[1].type = EXPENSE /\ transactions[1].amount = 1
    /\ transactions[2].type = INCOME
    /\ RolloverComputes(CivilToDays(2024, 1, 16))
    /\ rolloverAmount(CivilToDays(2024, 1, 16), transactions, monthlyIncomeGoal) = 2
    /\ currentMonthStatsOf(transactions, monthlyIncomeGoal, CivilToDays(2024, 1, 14)).remaining = 2
    /\ rolloverRequest(CivilToDays(2024, 1, 16), transactions, monthlyIncomeGoal,
                       initialBalances).balances.general = Str(7)

====
